---- MODULE Spec2Model ----
(***************************************************************************)
(* go-soda (soda.go, metadata.go).                                         *)
(*                                                                         *)
(* Spec        the OffsetGetRequest session: one GetRequest is shared by   *)
(*             several goroutines that call Next(number); the mutex m      *)
(*             protects the offset counter and the serialization of the    *)
(*             shared query, the HTTP request itself (get) runs after the  *)
(*             unlock.                                                     *)
(* SpecQuery   the query model of one request: AddOrder, ClearOrder and    *)
(*             the two URLValues.                                          *)
(* SpecRequest one request used by one caller: Get, Count and the          *)
(*             metadata calls, each against a transport that fails,        *)
(*             answers below 400 or answers from 400 on.                   *)
(* SpecNew     NewOffsetGetRequest on a configured request, then the       *)
(*             session it returned.                                        *)
(* SpecCalls   SpecNew, and a Get by the caller on the same request.       *)
(* SpecFields  Fields and Modified on one request.                         *)
(* SpecLoop    the README's GetAllData: goroutines that loop on Next with  *)
(*             one batch size until ErrDone, under weak fairness.          *)
(*                                                                         *)
(* Go's uint is modelled with UintMod values (arithmetic modulo UintMod),  *)
(* so that o.offset+number wraps as it does in the build; int has the      *)
(* same width.                                                             *)
(***************************************************************************)
EXTENDS Integers, Sequences, FiniteSets, TLC

\* ---------------------------------------------------------------- bounds
\* number of values of the unsigned integer type (2^64 in the build)
UintMod == 16
\* largest count snapshot a session is constructed with
MaxTotal == 2
\* goroutines sharing the session: at most this many Next calls at a time
NumWorkers == 2
\* Next calls started over the life of the session
MaxCalls == 3
\* sort keys a query holds at most
MaxOrder == 2
\* operations performed on the query model of one request
MaxOps == 4
\* requests one caller makes with one request outside a session
MaxRequests == 2

Uint == 0..(UintMod - 1)

\* the batch sizes callers pass to Next: none, small ones, and the largest
\* value of the type
BatchSizes == {0, 1, 2, UintMod - 1}

\* status codes the stub transport answers with, around the 400 boundary
Statuses == {399, 400}

VARIABLES
    gr,        \* the shared *GetRequest: Format, Filters, Query
    offset,    \* OffsetGetRequest.offset
    count,     \* OffsetGetRequest.count
    m,         \* OffsetGetRequest.m: TRUE while the mutex is locked
    active,    \* the Next calls that are inside get, one record per call:
               \*   win      index in windows of the window of the call
               \*   pc       the position of the call in get
               \*   rawquery the local rawquery captured under the lock
               \*   request  the request handed to client.Do
    returned,  \* what the latest return of Next (in any goroutine) returned
    windows,   \* history: the windows assigned, in lock-acquisition order
    nreq,      \* history: number of HTTP requests issued
    calls,     \* history: number of Next calls started
    last,      \* history: the latest operation on the request outside a
               \* session (Get, Count, URLValues, metadata, ...) and its outcome
    added      \* history: the sort keys added since the last ClearOrder

vars == <<gr, offset, count, m, active, returned, windows, nreq, calls, last,
          added>>

\* ------------------------------------------------- strings and url.Values
\* fmt.Sprintf("%d", n) of one decimal digit
Digit(d) ==
    CASE d = 0 -> "0" [] d = 1 -> "1" [] d = 2 -> "2" [] d = 3 -> "3"
      [] d = 4 -> "4" [] d = 5 -> "5" [] d = 6 -> "6" [] d = 7 -> "7"
      [] d = 8 -> "8" [] d = 9 -> "9"

RECURSIVE Sprintf_d(_)
\* fmt.Sprintf("%d", n): the decimal string of an unsigned integer
Sprintf_d(n) ==
    IF n < 10 THEN Digit(n) ELSE Sprintf_d(n \div 10) \o Digit(n % 10)

RECURSIVE Join(_, _)
\* strings.Join(elems, sep)
Join(elems, sep) ==
    IF Len(elems) = 0 THEN ""
    ELSE IF Len(elems) = 1 THEN elems[1]
    ELSE elems[1] \o sep \o Join(Tail(elems), sep)

\* an empty url.Values (make(url.Values)): a map from key to value
EmptyValues == [k \in {} |-> ""]

\* uv.Add(key, val) on a key not yet present, and uv[key] = val
Put(uv, key, val) ==
    [k \in (DOMAIN uv) \cup {key} |-> IF k = key THEN val ELSE uv[k]]

\* the "<column> DESC" / "<column> ASC" strings of the sort keys, in order
OrderStrings(order) ==
    [i \in 1..Len(order) |->
        IF order[i].Desc THEN order[i].Column \o " DESC"
                         ELSE order[i].Column \o " ASC"]

\* SoSQL.URLValues with the limit emitted whatever its value
SoSQLURLValues_limitAlways(sq) ==
    LET u1 == IF Len(sq.Select) > 0
              THEN Put(EmptyValues, "$select", Join(sq.Select, ",")) ELSE EmptyValues
        u2 == IF sq.Where # "" THEN Put(u1, "$where", sq.Where) ELSE u1
        u3 == IF Len(sq.Order) > 0
              THEN Put(u2, "$order", Join(OrderStrings(sq.Order), ",")) ELSE u2
        u4 == IF sq.Q # "" THEN Put(u3, "$q", sq.Q) ELSE u3
        u5 == IF sq.Group # "" THEN Put(u4, "$group", sq.Group) ELSE u4
        u6 == Put(u5, "$limit", Sprintf_d(sq.Limit))
        u7 == IF sq.Offset > 0 THEN Put(u6, "$offset", Sprintf_d(sq.Offset)) ELSE u6
    IN  u7

\* SoSQL.URLValues: a key only for a non-default field
SoSQLURLValues(sq) ==
    LET u1 == IF Len(sq.Select) > 0
              THEN Put(EmptyValues, "$select", Join(sq.Select, ",")) ELSE EmptyValues
        u2 == IF sq.Where # "" THEN Put(u1, "$where", sq.Where) ELSE u1
        u3 == IF Len(sq.Order) > 0
              THEN Put(u2, "$order", Join(OrderStrings(sq.Order), ",")) ELSE u2
        u4 == IF sq.Q # "" THEN Put(u3, "$q", sq.Q) ELSE u3
        u5 == IF sq.Group # "" THEN Put(u4, "$group", sq.Group) ELSE u4
        u6 == IF sq.Limit > 0 THEN Put(u5, "$limit", Sprintf_d(sq.Limit)) ELSE u5
        u7 == IF sq.Offset > 0 THEN Put(u6, "$offset", Sprintf_d(sq.Offset)) ELSE u6
    IN  u7

\* SimpleFilters.URLValues: one key per filter
SimpleFiltersURLValues(sf) == [k \in DOMAIN sf |-> sf[k]]

\* GetRequest.URLValues with the two loops in the other order
GetRequestURLValues_filtersLast(r) ==
    LET f == SimpleFiltersURLValues(r.Filters)
        q == SoSQLURLValues(r.Query)
    IN  [k \in (DOMAIN f) \cup (DOMAIN q) |-> IF k \in DOMAIN f THEN f[k] ELSE q[k]]

\* GetRequest.URLValues: filters first, query parameters second (overwriting)
GetRequestURLValues(r) ==
    LET f == SimpleFiltersURLValues(r.Filters)
        q == SoSQLURLValues(r.Query)
    IN  [k \in (DOMAIN f) \cup (DOMAIN q) |-> IF k \in DOMAIN q THEN q[k] ELSE f[k]]

\* the keys of the model in the byte order url.Values.Encode sorts them by
KeyOrder ==
    <<"$group", "$limit", "$offset", "$order", "$q", "$select", "$where", "item">>

RECURSIVE EncodeFrom(_, _)
EncodeFrom(uv, i) ==
    IF i > Len(KeyOrder) THEN <<>>
    ELSE (IF KeyOrder[i] \in DOMAIN uv
          THEN <<[key |-> KeyOrder[i], val |-> uv[KeyOrder[i]]]>> ELSE <<>>)
         \o EncodeFrom(uv, i + 1)

\* url.Values.Encode: the key=value pairs sorted by key (the per-character
\* escaping of each key and value is injective and is not spelled out)
Encode(uv) == EncodeFrom(uv, 1)

\* what the server reads from a raw query: the value of a key, or "" when the
\* key is absent (the server then applies its default)
Param(raw, key) ==
    IF \E i \in 1..Len(raw) : raw[i].key = key
    THEN raw[CHOOSE i \in 1..Len(raw) : raw[i].key = key].val
    ELSE ""

\* ------------------------------------------------------------ the session
\* Query.Order of a request with no sort key, and with one (README sample)
NoOrder == <<>>
OneOrder == <<[Column |-> "zipcode", Desc |-> FALSE]>>

\* the zero SoSQL of NewGetRequest
ZeroQuery ==
    [Select |-> <<>>, Where |-> "", Order |-> NoOrder, Group |-> "",
     Limit |-> 0, Offset |-> 0, Q |-> ""]

\* NewGetRequest, then the caller's configuration: a format (or none), a
\* filter, a sort key (or none)
NewGetRequest(format, order) ==
    [Format |-> format,
     Filters |-> [k \in {"item"} |-> "Radishes"],
     Query |-> [ZeroQuery EXCEPT !.Order = order]]

\* a value no completed write stores: what a read of Format can return while
\* another goroutine writes the two words of the string
Torn == "<torn>"

\* a request not yet built
NoRequest == [url |-> "", query |-> <<>>]

\* before any Next call has returned
NoReturn == "none"

\* before any operation outside a session
NoOp == [op |-> "none", n |-> 0]

\* the session NewOffsetGetRequest returns: offset 0, count the count snapshot
Init ==
    /\ \E format \in {"", "json"}, order \in {NoOrder, OneOrder} :
          gr = NewGetRequest(format, order)
    /\ offset = 0
    /\ count \in 0..MaxTotal
    /\ m = FALSE
    /\ active = {}
    /\ returned = NoReturn
    /\ windows = <<>>
    /\ nreq = 0
    /\ calls = 0
    /\ last = NoOp
    /\ added = gr.Query.Order

\* IsDone with the comparison off by one
IsDone_gt(off, cnt) == off > cnt

\* OffsetGetRequest.IsDone
IsDone(off, cnt) == off >= cnt

\* Next with the order check left to the request (no check under the lock)
NextOutcome_noOrderCheck(off, cnt, q) ==
    IF IsDone(off, cnt) THEN "done" ELSE "assign"

\* Next with the order check made before the exhaustion check
NextOutcome_orderFirst(off, cnt, q) ==
    IF Len(q.Order) = 0 THEN "noorder"
    ELSE IF IsDone(off, cnt) THEN "done"
    ELSE "assign"

\* the branch Next takes under the lock: ErrDone, the missing-order error, or
\* the assignment of a window
NextOutcome(off, cnt, q) ==
    IF IsDone(off, cnt) THEN "done"
    ELSE IF Len(q.Order) = 0 THEN "noorder"
    ELSE "assign"

\* the clamp of number to the remaining count; o.offset+number is uint
\* arithmetic and wraps
Clamp(off, n, cnt) ==
    IF (off + n) % UintMod > cnt THEN cnt - off ELSE n

\* A goroutine calls Next.  o.m.Lock() returns when the mutex is free, and
\* what Next does until it unlocks (or returns) is one step: nothing else
\* runs inside the critical section.  A caller whose Lock blocks has touched
\* nothing; it is a caller that has not got this far.
Enter ==
    /\ Cardinality(active) < NumWorkers
    /\ calls < MaxCalls
    /\ ~m
    /\ calls' = calls + 1

\* if o.IsDone() { o.m.Unlock(); return nil, ErrDone }
NextDone ==
    /\ Enter
    /\ NextOutcome(offset, count, gr.Query) = "done"
    /\ m' = FALSE
    /\ returned' = "ErrDone"
    /\ UNCHANGED <<gr, offset, count, active, windows, nreq, last, added>>

\* if len(o.gr.Query.Order) == 0 { return nil, errors.New(...) }: the return
\* does not unlock m
NextNoOrder ==
    /\ Enter
    /\ NextOutcome(offset, count, gr.Query) = "noorder"
    /\ m' = TRUE
    /\ returned' = "config"
    /\ UNCHANGED <<gr, offset, count, active, windows, nreq, last, added>>

\* the critical section with the caller's number, not the clamped one,
\* stored as the limit
AssignWindow_limitUnclamped(b) ==
    /\ Enter
    /\ NextOutcome(offset, count, gr.Query) = "assign"
    /\ LET number == Clamp(offset, b, count)
           g == [gr EXCEPT !.Query.Offset = offset, !.Query.Limit = b]
       IN  /\ gr' = g
           /\ offset' = (offset + number) % UintMod
           /\ windows' = Append(windows,
                  [start |-> offset, len |-> number, b |-> b, failed |-> FALSE])
           /\ active' = active \cup
                  {[win |-> Len(windows) + 1, pc |-> "epcheck",
                    rawquery |-> Encode(GetRequestURLValues(g)),
                    request |-> NoRequest]}
    /\ UNCHANGED <<count, returned, nreq, last, added>>

\* the rest of the critical section of Next(b): clamp, set the shared query's
\* Offset and Limit, serialize, advance offset; the call goes on into get
AssignWindow(b) ==
    /\ Enter
    /\ NextOutcome(offset, count, gr.Query) = "assign"
    /\ LET number == Clamp(offset, b, count)
           g == [gr EXCEPT !.Query.Offset = offset, !.Query.Limit = number]
       IN  /\ gr' = g
           /\ offset' = (offset + number) % UintMod
           /\ windows' = Append(windows,
                  [start |-> offset, len |-> number, b |-> b, failed |-> FALSE])
           /\ active' = active \cup
                  {[win |-> Len(windows) + 1, pc |-> "epcheck",
                    rawquery |-> Encode(GetRequestURLValues(g)),
                    request |-> NoRequest]}
    /\ UNCHANGED <<count, returned, nreq, last, added>>

\* Next with the unlock left until after the request
NextAssign_holdLock(b) ==
    /\ AssignWindow(b)
    /\ m' = TRUE

\* ... and o.m.Unlock() before the request is done: get runs unlocked
NextAssign(b) ==
    /\ AssignWindow(b)
    /\ m' = FALSE

\* ---------------------------------------------------- get, after the unlock
\* the positions of get at which a call is about to access r.Format
FormatAccess == {"epcheck", "epwrite", "epread"}

\* call c moves on
Step(c, d) == active' = (active \ {c}) \cup {d}

\* the values a read of r.Format by call c can return: the stored value, or,
\* while another goroutine is about to write the field without
\* synchronisation, also the value being written or a torn string
ReadFormat(c) ==
    IF \E d \in active \ {c} : d.pc = "epwrite"
    THEN {gr.Format, "json", Torn}
    ELSE {gr.Format}

\* GetEndpoint: if r.Format == ""
GetEndpointCheck ==
    /\ \E c \in active :
          /\ c.pc = "epcheck"
          /\ \E f \in ReadFormat(c) :
                Step(c, [c EXCEPT !.pc = IF f = "" THEN "epwrite" ELSE "epread"])
    /\ UNCHANGED <<gr, offset, count, m, returned, windows, nreq, calls, last, added>>

\* GetEndpoint: r.Format = "json"
GetEndpointWrite ==
    /\ \E c \in active :
          /\ c.pc = "epwrite"
          /\ Step(c, [c EXCEPT !.pc = "epread"])
    /\ gr' = [gr EXCEPT !.Format = "json"]
    /\ UNCHANGED <<offset, count, m, returned, windows, nreq, calls, last, added>>

\* the raw query serialized from the shared request when the request is built
SentQuery_shared(c) == Encode(GetRequestURLValues(gr))

\* req.URL.RawQuery = rawquery: the raw query of the request of call c
SentQuery(c) == c.rawquery

\* GetEndpoint: fmt.Sprintf("%s.%s", r.endpoint, r.Format), the last access
\* of get to the shared request; then http.NewRequest, RawQuery, the token
\* header and client.Do(req): the request is on the wire.  The endpoint is
\* the same for every request, the format read is what is kept of the URL
\* get that hands the request to the client a second time
Do_twice ==
    /\ \E c \in active :
          /\ c.pc = "epread"
          /\ \E f \in ReadFormat(c) :
                Step(c, [c EXCEPT !.pc = "inflight",
                                  !.request = [url |-> "." \o f, query |-> SentQuery(c)]])
    /\ nreq' = nreq + 2
    /\ UNCHANGED <<gr, offset, count, m, returned, windows, calls, last, added>>

\* req built, client.Do(req) called: the request is on the wire
Do ==
    /\ \E c \in active :
          /\ c.pc = "epread"
          /\ \E f \in ReadFormat(c) :
                Step(c, [c EXCEPT !.pc = "inflight",
                                  !.request = [url |-> "." \o f, query |-> SentQuery(c)]])
    /\ nreq' = nreq + 1
    /\ UNCHANGED <<gr, offset, count, m, returned, windows, calls, last, added>>

\* the classification with the boundary above 400
Classify_above400(status, bodyErr) ==
    IF status > 400 THEN (IF bodyErr THEN "transport" ELSE "remote") ELSE "ok"

\* what get returns for an answer with this status: the response below 400,
\* an error from 400 on (the error of ReadAll when the body cannot be read)
Classify(status, bodyErr) ==
    IF status >= 400 THEN (IF bodyErr THEN "transport" ELSE "remote") ELSE "ok"

\* Next returns what get returned
Return(c, r) ==
    /\ c.pc = "inflight"
    /\ returned' = r
    /\ windows' = [windows EXCEPT ![c.win].failed = (r # "ok")]
    /\ active' = active \ {c}
    /\ UNCHANGED <<gr, offset, count, m, nreq, calls, last, added>>

\* client.Do returns an error
DoError == \E c \in active : Return(c, "transport")

\* client.Do returns a response
Respond(status, bodyErr) ==
    \E c \in active : Return(c, Classify(status, bodyErr))

Next ==
    \/ NextDone
    \/ NextNoOrder
    \/ \E b \in BatchSizes : NextAssign(b)
    \/ GetEndpointCheck
    \/ GetEndpointWrite
    \/ Do
    \/ DoError
    \/ \E status \in Statuses, bodyErr \in BOOLEAN : Respond(status, bodyErr)

Spec == Init /\ [][Next]_vars

\* ------------------------------------------------------------ properties
Min(a, b) == IF a <= b THEN a ELSE b

\* the record indexes of a window
Cells(win) == win.start .. (win.start + win.len - 1)

\* the record indexes assigned so far
Assigned == UNION {Cells(windows[i]) : i \in 1..Len(windows)}

Exhausted == offset >= count

\* the calls whose request is on the wire
InFlight == {c \in active : c.pc = "inflight"}

\* the limit the server applies to a request without $limit (SoSQL.Limit)
DefaultLimit == 1000

\* the unsigned integer a decimal string stands for
ParseUint(str) == CHOOSE n \in Uint : Sprintf_d(n) = str

\* the offset and the limit the server applies to a raw query
ServerOffset(raw) ==
    IF Param(raw, "$offset") = "" THEN 0 ELSE ParseUint(Param(raw, "$offset"))
ServerLimit(raw) ==
    IF Param(raw, "$limit") = "" THEN DefaultLimit ELSE ParseUint(Param(raw, "$limit"))

\* C1: in every reachable state the windows assigned so far are pairwise
\* disjoint and their union is exactly [0, offset); once the session is
\* exhausted the union is exactly {0, ..., count-1}.
C1_ExactCover ==
    /\ \A i, j \in 1..Len(windows) :
          i # j => Cells(windows[i]) \cap Cells(windows[j]) = {}
    /\ Assigned = 0..(offset - 1)
    /\ Exhausted => Assigned = 0..(count - 1)

\* C2: the shared offset never decreases, each newly assigned window starts
\* where the previously assigned one ended, and every call that is assigned a
\* (non-empty) window strictly advances the offset.
C2_IncreasingGapless ==
    [][/\ offset' >= offset
       /\ Len(windows') > Len(windows) =>
            LET new == windows'[Len(windows')]
            IN  /\ new.start = IF Len(windows) = 0 THEN 0
                               ELSE windows[Len(windows)].start + windows[Len(windows)].len
                /\ new.len > 0 => offset' > offset]_vars

\* a step in which a Next call returns: one that never reached get, or one
\* that comes back from get
ReturnsEarly == calls' > calls /\ active' = active
ReturnsFromGet == Cardinality(active') < Cardinality(active)

\* C3: exhaustion is terminal; a Next call made once offset >= count returns
\* ErrDone, changes neither offset nor the shared request, issues no request
\* and leaves the mutex free; and ErrDone is returned only by such a call.
C3_ExhaustionTerminal ==
    [][/\ Exhausted => Exhausted'
       /\ Exhausted' => ~m'
       /\ (Exhausted /\ calls' > calls) =>
            /\ returned' = "ErrDone"
            /\ offset' = offset /\ gr' = gr /\ nreq' = nreq
            /\ windows' = windows /\ active' = active
       /\ ((ReturnsEarly \/ ReturnsFromGet) /\ returned' = "ErrDone") =>
            /\ Exhausted /\ ReturnsEarly
            /\ windows' = windows]_vars

\* C3 witness: ErrDone after windows have been assigned
C3_Witness == returned = "ErrDone" /\ Len(windows) > 0 /\ nreq > 0

\* C4: with no sort key and offset < count, Next returns the configuration
\* error, advances nothing, leaves the shared query alone and issues no request.
C4_NoOrderNoAdvance ==
    [][/\ (Len(gr.Query.Order) = 0 /\ ~Exhausted /\ calls' > calls) =>
            /\ returned' = "config"
            /\ offset' = offset /\ gr' = gr /\ nreq' = nreq
            /\ windows' = windows /\ active' = active
       /\ Len(gr.Query.Order) = 0 => (nreq' = 0 /\ offset' = 0)]_vars

\* C4 witness: the configuration error has been returned before exhaustion
C4_Witness == returned = "config" /\ offset < count /\ Len(gr.Query.Order) = 0

\* C5: every window assigned by Next(b) has length min(b, count - start).
C5_ClampedLength ==
    \A i \in 1..Len(windows) :
        windows[i].len = Min(windows[i].b, count - windows[i].start)

\* C6 as claimed: the request on the wire carries exactly the start and the
\* length of the window of its call as offset and limit.
C6_RequestCarriesWindow ==
    \A c \in InFlight :
        /\ ServerOffset(c.request.query) = windows[c.win].start
        /\ ServerLimit(c.request.query) = windows[c.win].len

\* C6 amended: the request on the wire carries the query serialized under the
\* lock: its offset is the window's start, its limit the window's length when
\* that is above 0; for an empty window no $limit is sent at all.
C6_RequestCarriesSerializedWindow ==
    \A c \in InFlight :
        /\ c.request.query = c.rawquery
        /\ ServerOffset(c.request.query) = windows[c.win].start
        /\ windows[c.win].len > 0 =>
              ServerLimit(c.request.query) = windows[c.win].len
        /\ windows[c.win].len = 0 => Param(c.request.query, "$limit") = ""

\* C6 witness: a request goes out for a window that is no longer the one the
\* shared query holds
C6_Witness ==
    \E c \in InFlight :
        /\ windows[c.win].len > 0
        /\ gr.Query.Offset # windows[c.win].start
        /\ gr.Query.Limit # windows[c.win].len

\* C7: no two calls are about to access the same shared field outside the
\* critical section with one of them writing it.
C7_NoUnlockedConflict ==
    \A c, d \in active :
        (c # d /\ c.pc = "epwrite") => d.pc \notin FormatAccess

\* C8: while a call is in get the mutex is free, and another goroutine can be
\* assigned the next window.
C8_LockFreeInFlight ==
    /\ active # {} => ~m
    /\ (InFlight # {} /\ Cardinality(active) < NumWorkers /\ calls < MaxCalls
          /\ ~Exhausted)
        => ENABLED (\E b \in BatchSizes : NextAssign(b))

\* C8 witness: two requests on the wire at once
C8_Witness == Cardinality(InFlight) >= 2

\* C9: when the request of a call fails the error is returned, offset stays,
\* no request is issued again, and no later call is handed a record of the
\* failed window.
C9_FailedWindowStaysConsumed ==
    [][/\ \A c \in active :
            (active' = active \ {c} /\ windows'[c.win].failed) =>
                /\ returned' \in {"transport", "remote"}
                /\ offset' = offset /\ nreq' = nreq
       /\ \A i, j \in 1..Len(windows') :
            (i < j /\ windows'[i].failed) =>
                Cells(windows'[i]) \cap Cells(windows'[j]) = {}]_vars

\* C10: with count = 0 every Next call returns ErrDone and no request is
\* issued, with or without a sort key; the mutex stays free.
C10_ZeroTotal ==
    count = 0 =>
        /\ returned \in {"none", "ErrDone"}
        /\ calls > 0 => returned = "ErrDone"
        /\ nreq = 0 /\ windows = <<>> /\ active = {} /\ ~m

\* C10 witness: repeated calls on an empty session without a sort key
C10_Witness ==
    count = 0 /\ Len(gr.Query.Order) = 0 /\ calls >= 2 /\ returned = "ErrDone"

\* ------------------------------------------------------- the query model
\* the filters a caller sets: none, an equality filter, a filter on a key
\* the query model reserves, both
FilterSets ==
    {EmptyValues,
     [k \in {"item"} |-> "Radishes"],
     [k \in {"$limit"} |-> "5"],
     [k \in {"item", "$limit"} |-> IF k = "item" THEN "Radishes" ELSE "5"]}

\* the SoSQL fields a caller sets directly, each left at its zero value or
\* set (Order is only changed through AddOrder and ClearOrder)
QueryConfigs ==
    [Select : {<<>>, <<"x", "y">>}, Where : {"", "x > 1"}, Order : {NoOrder},
     Group : {"", "g"}, Limit : {0, UintMod - 1}, Offset : {0, 12},
     Q : {"", "q"}]

\* the columns and directions (DirAsc = false, DirDesc = true) passed to
\* AddOrder
Columns == {"x", "y"}
Directions == {FALSE, TRUE}

\* AddOrder that puts the new key in front
AddOrder_prepend(sq, column, dir) ==
    [sq EXCEPT !.Order = <<[Column |-> column, Desc |-> dir]>> \o @]

\* SoSQL.AddOrder: sq.Order = append(sq.Order, {column, bool(dir)})
AddOrder(sq, column, dir) ==
    [sq EXCEPT !.Order = Append(@, [Column |-> column, Desc |-> dir])]

\* SoSQL.ClearOrder: sq.Order = an empty slice
ClearOrder(sq) == [sq EXCEPT !.Order = <<>>]

\* a request after NewGetRequest and the caller's direct configuration
InitQuery ==
    /\ \E filters \in FilterSets, query \in QueryConfigs :
          gr = [NewGetRequest("", NoOrder) EXCEPT !.Filters = filters,
                                                  !.Query = query]
    /\ offset = 0
    /\ count = 0
    /\ m = FALSE
    /\ active = {}
    /\ returned = NoReturn
    /\ windows = <<>>
    /\ nreq = 0
    /\ calls = 0
    /\ last = NoOp
    /\ added = <<>>

\* what no operation on the query model touches
session == <<offset, count, m, active, returned, windows, nreq, calls>>

\* the caller calls r.Query.AddOrder(column, dir)
QueryAddOrder ==
    /\ last.n < MaxOps
    /\ Len(gr.Query.Order) < MaxOrder
    /\ \E column \in Columns, dir \in Directions :
          /\ gr' = [gr EXCEPT !.Query = AddOrder(@, column, dir)]
          /\ added' = Append(added, [Column |-> column, Desc |-> dir])
    /\ last' = [op |-> "AddOrder", n |-> last.n + 1]
    /\ UNCHANGED session

\* the caller calls r.Query.ClearOrder()
QueryClearOrder ==
    /\ last.n < MaxOps
    /\ gr' = [gr EXCEPT !.Query = ClearOrder(@)]
    /\ added' = <<>>
    /\ last' = [op |-> "ClearOrder", n |-> last.n + 1]
    /\ UNCHANGED session

\* the caller calls r.Query.URLValues(): the receiver is only read
QueryURLValues ==
    /\ last.n < MaxOps
    /\ last' = [op |-> "SoSQL.URLValues", n |-> last.n + 1,
                val |-> SoSQLURLValues(gr.Query)]
    /\ UNCHANGED <<gr, added>>
    /\ UNCHANGED session

\* the caller calls r.URLValues(): the receiver is only read
RequestURLValues ==
    /\ last.n < MaxOps
    /\ last' = [op |-> "GetRequest.URLValues", n |-> last.n + 1,
                val |-> GetRequestURLValues(gr)]
    /\ UNCHANGED <<gr, added>>
    /\ UNCHANGED session

NextQuery ==
    \/ QueryAddOrder
    \/ QueryClearOrder
    \/ QueryURLValues
    \/ RequestURLValues

SpecQuery == InitQuery /\ [][NextQuery]_vars

\* ------------------------------------------- endpoints and the metadata
\* An endpoint, a URL and a count scalar are sequences of one-character
\* strings, so that they can be split, trimmed and indexed as the code does.
Letters ==
    {"a", "b", "c", "d", "e", "f", "g", "h", "i", "j", "k", "l", "m", "n",
     "o", "p", "q", "r", "s", "t", "u", "v", "w", "x", "y", "z"}
Digits == {"0", "1", "2", "3", "4", "5", "6", "7", "8", "9"}
HexDigits == Digits \cup {"a", "b", "c", "d", "e", "f"}

\* the index of the first c in s, 0 when there is none
IndexOf(s, c) ==
    IF \E i \in 1..Len(s) : s[i] = c
    THEN CHOOSE i \in 1..Len(s) : s[i] = c /\ \A j \in 1..(i - 1) : s[j] # c
    ELSE 0

\* strings.TrimSuffix(s, c) for a one-character suffix
TrimSuffix(s, c) ==
    IF Len(s) > 0 /\ s[Len(s)] = c THEN SubSeq(s, 1, Len(s) - 1) ELSE s

RECURSIVE Split(_, _)
\* strings.Split(s, c) for a one-character separator
Split(s, c) ==
    LET i == IndexOf(s, c)
    IN  IF i = 0 THEN <<s>>
        ELSE <<SubSeq(s, 1, i - 1)>> \o Split(SubSeq(s, i + 1, Len(s)), c)

RECURSIVE SchemeEnd(_, _)
\* net/url getScheme: the index of the ':' that ends the scheme, 0 when the
\* URL has no scheme, -1 for "missing protocol scheme"
SchemeEnd(raw, i) ==
    IF i > Len(raw) THEN 0
    ELSE IF raw[i] \in Letters THEN SchemeEnd(raw, i + 1)
    ELSE IF raw[i] \in Digits \cup {"+", "-", "."}
         THEN (IF i = 1 THEN 0 ELSE SchemeEnd(raw, i + 1))
    ELSE IF raw[i] = ":" THEN (IF i = 1 THEN -1 ELSE i)
    ELSE 0

\* net/url unescape: a '%' that is not followed by two hexadecimal digits
BadEscape(s) ==
    \E i \in 1..Len(s) :
        /\ s[i] = "%"
        /\ \/ i + 2 > Len(s)
           \/ s[i + 1] \notin HexDigits
           \/ s[i + 2] \notin HexDigits

\* url.Parse on the URLs of the model (no query, fragment, user info or
\* well-formed escape): scheme, "//" authority up to the next '/', path
Parse(raw) ==
    LET e == SchemeEnd(raw, 1)
        scheme == IF e > 0 THEN SubSeq(raw, 1, e - 1) ELSE <<>>
        rest == IF e > 0 THEN SubSeq(raw, e + 1, Len(raw)) ELSE raw
        hasAuth == Len(rest) >= 2 /\ rest[1] = "/" /\ rest[2] = "/"
        afterAuth == IF hasAuth THEN SubSeq(rest, 3, Len(rest)) ELSE rest
        slash == IndexOf(afterAuth, "/")
        host == IF ~hasAuth THEN <<>>
                ELSE IF slash = 0 THEN afterAuth
                ELSE SubSeq(afterAuth, 1, slash - 1)
        path == IF hasAuth
                THEN (IF slash = 0 THEN <<>>
                      ELSE SubSeq(afterAuth, slash, Len(afterAuth)))
                ELSE IF e > 0 /\ (Len(rest) = 0 \/ rest[1] # "/") THEN <<>>
                ELSE rest
    IN  IF e = -1 \/ BadEscape(host) \/ BadEscape(path)
        THEN [err |-> TRUE, Scheme |-> <<>>, Host |-> <<>>, Path |-> <<>>]
        ELSE [err |-> FALSE, Scheme |-> scheme, Host |-> host, Path |-> path]

\* newMetadata that splits the path as it is
newMetadata_noTrim(resourceurl) ==
    LET u == Parse(resourceurl)
        ps == Split(u.Path, "/")
    IN  IF u.err THEN [baseurl |-> <<>>, identifier |-> <<>>]
        ELSE [baseurl |-> u.Scheme \o <<":", "/", "/">> \o u.Host,
              identifier |-> ps[Len(ps)]]

\* newMetadata: base URL and identifier of a resource URL; the zero metadata
\* when the URL does not parse
newMetadata(resourceurl) ==
    LET u == Parse(resourceurl)
        ps == Split(TrimSuffix(u.Path, "/"), "/")
    IN  IF u.err THEN [baseurl |-> <<>>, identifier |-> <<>>]
        ELSE [baseurl |-> u.Scheme \o <<":", "/", "/">> \o u.Host,
              identifier |-> ps[Len(ps)]]

\* metadata.url with the hyphen test left out
metadata_url_noHyphen(md) ==
    IF md.baseurl = <<>> \/ Len(md.identifier) # 9
    THEN [err |-> TRUE, url |-> <<>>]
    ELSE [err |-> FALSE,
          url |-> md.baseurl \o <<"/", "v", "i", "e", "w", "s", "/">>
                    \o md.identifier]

\* metadata.url: identifier[4] is the 5th character
metadata_url(md) ==
    IF md.baseurl = <<>> \/ Len(md.identifier) # 9 \/ md.identifier[5] # "-"
    THEN [err |-> TRUE, url |-> <<>>]
    ELSE [err |-> FALSE,
          url |-> md.baseurl \o <<"/", "v", "i", "e", "w", "s", "/">>
                    \o md.identifier]

\* the resource URLs requests are made for: the well-formed one, with a
\* trailing slash, cut short by two characters (soda_test.go), with no
\* hyphen, and one that does not parse
ResourceBase == <<"h", ":", "/", "/", "d", "/", "r", "/">>
Resource == ResourceBase \o <<"y", "6", "p", "2", "-", "p", "x", "9", "8">>
Unparsable == ResourceBase \o <<"%">>
Endpoints ==
    {Resource,
     Resource \o <<"/">>,
     SubSeq(Resource, 1, Len(Resource) - 2),
     ResourceBase \o <<"y", "6", "p", "2", "x", "p", "x", "9", "8">>,
     Unparsable}

\* ---------------------------------------------------------- the requests
\* Go's int of the width of the model's uint
IntMin == 0 - (UintMod \div 2)
IntMax == (UintMod \div 2) - 1

\* the value of one decimal digit
DigitValue(c) ==
    CASE c = "0" -> 0 [] c = "1" -> 1 [] c = "2" -> 2 [] c = "3" -> 3
      [] c = "4" -> 4 [] c = "5" -> 5 [] c = "6" -> 6 [] c = "7" -> 7
      [] c = "8" -> 8 [] c = "9" -> 9

RECURSIVE DigitsValue(_)
DigitsValue(s) ==
    IF Len(s) = 0 THEN 0
    ELSE 10 * DigitsValue(SubSeq(s, 1, Len(s) - 1)) + DigitValue(s[Len(s)])

\* strconv.Atoi: an optional sign, then one or more digits, the value within
\* the range of int
Atoi(s) ==
    LET signed == Len(s) > 0 /\ s[1] \in {"+", "-"}
        digits == IF signed THEN Tail(s) ELSE s
        val == IF signed /\ s[1] = "-" THEN 0 - DigitsValue(digits)
               ELSE DigitsValue(digits)
    IN  IF Len(digits) = 0 \/ \E i \in 1..Len(digits) : digits[i] \notin Digits
        THEN [err |-> TRUE, val |-> 0]
        ELSE IF val < IntMin \/ val > IntMax THEN [err |-> TRUE, val |-> 0]
        ELSE [err |-> FALSE, val |-> val]

\* the conversion uint(icount)
ToUint(i) == i % UintMod

\* the bodies the stub transport answers with: a text that is not JSON, a
\* JSON array of rows with a count scalar each (none, "2", "-1", "a", "", "12"),
\* a JSON object
Bodies ==
    {[kind |-> "text", rows |-> <<>>],
     [kind |-> "array", rows |-> <<>>],
     [kind |-> "array", rows |-> <<<<"2">>>>],
     [kind |-> "array", rows |-> <<<<"-", "1">>>>],
     [kind |-> "array", rows |-> <<<<"a">>>>],
     [kind |-> "array", rows |-> <<<<>>>>],
     [kind |-> "array", rows |-> <<<<"1", "2">>>>],
     [kind |-> "object", rows |-> <<>>]}

\* what the transport does with a request: client.Do returns an error, or a
\* response with a status and a body, whose reading may fail: every body
\* below 400, a text and a count from 400 on
Outcomes ==
    {[kind |-> "neterr", status |-> 0, body |-> [kind |-> "text", rows |-> <<>>],
      readErr |-> FALSE]}
    \cup [kind : {"resp"}, status : {399}, body : Bodies, readErr : {FALSE}]
    \cup [kind : {"resp"}, status : Statuses,
          body : {[kind |-> "text", rows |-> <<>>],
                  [kind |-> "array", rows |-> <<<<"2">>>>]},
          readErr : BOOLEAN]

NoResponse == [status |-> 0]
NoError == [kind |-> "none"]

\* GetEndpoint that falls back to "json" without storing it
GetEndpoint_noStore(r) ==
    [r |-> r,
     url |-> r.endpoint \o <<".", IF r.Format = "" THEN "json" ELSE r.Format>>]

\* GetEndpoint: "<endpoint>.<format>", with "json" stored in an empty Format
\* (the format is one element of the URL)
GetEndpoint(r) ==
    LET r1 == IF r.Format = "" THEN [r EXCEPT !.Format = "json"] ELSE r
    IN  [r |-> r1, url |-> r.endpoint \o <<".", r1.Format>>]

\* get: the request is built, handed to the client, and the answer
\* classified.  reqs are the requests handed to client.Do; bodyOpen says the
\* response body was left unclosed.
get(r, rawquery, out) ==
    LET ep == GetEndpoint(r)
        req == [url |-> ep.url, query |-> rawquery, token |-> r.apptoken]
        class == Classify(out.status, out.readErr)
    IN  IF Parse(ep.url).err
        THEN [r |-> ep.r, resp |-> NoResponse, err |-> [kind |-> "newrequest"],
              reqs |-> <<>>, bodyOpen |-> FALSE]
        ELSE IF out.kind = "neterr"
        THEN [r |-> ep.r, resp |-> NoResponse, err |-> [kind |-> "transport"],
              reqs |-> <<req>>, bodyOpen |-> FALSE]
        ELSE IF class = "ok"
        THEN [r |-> ep.r,
              resp |-> [status |-> out.status, body |-> out.body,
                        readErr |-> out.readErr],
              err |-> NoError, reqs |-> <<req>>, bodyOpen |-> TRUE]
        ELSE IF class = "transport"
        THEN [r |-> ep.r, resp |-> NoResponse, err |-> [kind |-> "transport"],
              reqs |-> <<req>>, bodyOpen |-> TRUE]
        ELSE [r |-> ep.r, resp |-> NoResponse,
              err |-> [kind |-> "remote", status |-> out.status,
                       url |-> req.url, query |-> req.query,
                       body |-> out.body],
              reqs |-> <<req>>, bodyOpen |-> TRUE]

\* Get without the offset/order check
Get_noCheck(r, out) == get(r, Encode(GetRequestURLValues(r)), out)

\* GetRequest.Get: the offset/order check, then get
Get(r, out) ==
    IF r.Query.Offset > 0 /\ Len(r.Query.Order) = 0
    THEN [r |-> r, resp |-> NoResponse, err |-> [kind |-> "config"],
          reqs |-> <<>>, bodyOpen |-> FALSE]
    ELSE get(r, Encode(GetRequestURLValues(r)), out)

\* the deferred function of Count with the order left as Count set it
RestoreCount_noOrder(r, old) ==
    [r EXCEPT !.Format = old.Format, !.Query.Select = old.Query.Select]

\* the deferred function of Count: Format, Order and Select are put back
RestoreCount(r, old) ==
    [r EXCEPT !.Format = old.Format, !.Query.Order = old.Query.Order,
              !.Query.Select = old.Query.Select]

\* Count that leaves the caller's sort keys in the count query
CountRequest_keepOrder(r) ==
    [r EXCEPT !.Format = "json", !.Query.Select = <<"count(*)">>]

\* Count that leaves the caller's format in the count query
CountRequest_keepFormat(r) ==
    [r EXCEPT !.Query = ClearOrder([@ EXCEPT !.Select = <<"count(*)">>])]

\* Count, before its request: the format and the select list are
\* overridden and the order cleared
CountRequest(r) ==
    [r EXCEPT !.Format = "json",
              !.Query = ClearOrder([@ EXCEPT !.Select = <<"count(*)">>])]

\* Count, after its request: g is what Get returned, old the request as it
\* was when Count was called.  The body is decoded, the first scalar parsed
\* and converted, and the deferred function has put the fields back.
CountResult(g, old) ==
    LET after == RestoreCount(g.r, old)
        icount == Atoi(g.resp.body.rows[1])
    IN  IF g.err # NoError
        THEN [r |-> after, val |-> 0, err |-> g.err, reqs |-> g.reqs,
              bodyOpen |-> g.bodyOpen]
        ELSE IF g.resp.readErr \/ g.resp.body.kind # "array"
        THEN [r |-> after, val |-> 0, err |-> [kind |-> "decode"],
              reqs |-> g.reqs, bodyOpen |-> FALSE]
        ELSE IF Len(g.resp.body.rows) = 0
        THEN [r |-> after, val |-> 0, err |-> [kind |-> "empty"],
              reqs |-> g.reqs, bodyOpen |-> FALSE]
        ELSE IF icount.err
        THEN [r |-> after, val |-> 0, err |-> [kind |-> "atoi"],
              reqs |-> g.reqs, bodyOpen |-> FALSE]
        ELSE [r |-> after, val |-> ToUint(icount.val), err |-> NoError,
              reqs |-> g.reqs, bodyOpen |-> FALSE]

\* metadata.do: the URL, http.DefaultClient.Get, the status, the decoding
metadata_do(md, out) ==
    LET u == metadata_url(md)
        failed(kind, reqs) == [md |-> FALSE, err |-> [kind |-> kind],
                               reqs |-> reqs, bodyOpen |-> FALSE]
    IN  IF u.err THEN failed("url", <<>>)
        ELSE IF out.kind = "neterr" THEN failed("transport", <<u.url>>)
        ELSE IF out.status >= 400
        THEN [md |-> FALSE,
              err |-> [kind |-> "status", status |-> out.status,
                       body |-> IF out.readErr THEN [kind |-> "text", rows |-> <<>>]
                                ELSE out.body],
              reqs |-> <<u.url>>, bodyOpen |-> FALSE]
        ELSE IF out.readErr \/ out.body.kind # "object"
        THEN failed("decode", <<u.url>>)
        ELSE [md |-> TRUE, err |-> NoError, reqs |-> <<u.url>>,
              bodyOpen |-> FALSE]

\* NewGetRequest(endpoint, apptoken): no format, no filter, the zero query,
\* the metadata of the endpoint
NewGetRequestFor(endpoint, apptoken) ==
    [apptoken |-> apptoken, endpoint |-> endpoint, Format |-> "",
     Filters |-> EmptyValues, Query |-> ZeroQuery,
     Metadata |-> newMetadata(endpoint)]

\* a request after NewGetRequest and the caller's configuration: a format or
\* none, a filter, a select list or none, a sort key or none, an offset or
\* none, a limit or none, and a where, a group and a search
InitRequest ==
    /\ \E endpoint \in Endpoints, format \in {"", "csv"},
          select \in {<<>>, <<"x", "y">>},
          order \in {NoOrder, <<[Column |-> "x", Desc |-> FALSE]>>},
          off \in {0, 3}, limit \in {0, 2} :
          gr = [NewGetRequestFor(endpoint, "token") EXCEPT
                  !.Format = format,
                  !.Filters = [k \in {"item"} |-> "Radishes"],
                  !.Query = [Select |-> select, Where |-> "x > 1",
                             Order |-> order, Group |-> "g", Limit |-> limit,
                             Offset |-> off, Q |-> "q"]]
    /\ offset = 0
    /\ count = 0
    /\ m = FALSE
    /\ active = {}
    /\ returned = NoReturn
    /\ windows = <<>>
    /\ nreq = 0
    /\ calls = 0
    /\ last = NoOp
    /\ added = gr.Query.Order

\* the caller calls r.Get(); out is what the transport does with the request
RequestGet ==
    /\ last.n < MaxRequests
    /\ \E out \in Outcomes :
          \E g \in {Get(gr, out)} :
              /\ gr' = g.r
              /\ last' = [op |-> "Get", n |-> last.n + 1, before |-> gr,
                          out |-> out, resp |-> g.resp, err |-> g.err,
                          reqs |-> g.reqs, bodyOpen |-> g.bodyOpen]
    /\ UNCHANGED added
    /\ UNCHANGED session

\* the caller calls r.Count()
RequestCount ==
    /\ last.n < MaxRequests
    /\ \E out \in Outcomes :
          \E g \in {Get(CountRequest(gr), out)} :
          \E c \in {CountResult(g, gr)} :
              /\ gr' = c.r
              /\ last' = [op |-> "Count", n |-> last.n + 1, before |-> gr,
                          out |-> out, val |-> c.val, err |-> c.err,
                          reqs |-> c.reqs, bodyOpen |-> c.bodyOpen]
    /\ UNCHANGED added
    /\ UNCHANGED session

\* the caller calls r.Metadata.Get(): what do returns
MetadataGet ==
    /\ last.n < MaxRequests
    /\ \E out \in Outcomes :
          \E d \in {metadata_do(gr.Metadata, out)} :
              last' = [op |-> "Metadata.Get", n |-> last.n + 1, before |-> gr,
                       out |-> out, md |-> d.md, err |-> d.err,
                       reqs |-> d.reqs, bodyOpen |-> d.bodyOpen]
    /\ UNCHANGED <<gr, added>>
    /\ UNCHANGED session

\* the caller calls r.Metadata.GetColumns(): md.Columns of what do returns,
\* an empty slice with the error of do
MetadataGetColumns ==
    /\ last.n < MaxRequests
    /\ \E out \in Outcomes :
          \E d \in {metadata_do(gr.Metadata, out)} :
              last' = [op |-> "Metadata.GetColumns", n |-> last.n + 1,
                       before |-> gr, out |-> out, md |-> d.md,
                       err |-> d.err, reqs |-> d.reqs,
                       bodyOpen |-> d.bodyOpen]
    /\ UNCHANGED <<gr, added>>
    /\ UNCHANGED session

\* the caller calls r.GetEndpoint()
RequestGetEndpoint ==
    /\ last.n < MaxRequests
    /\ \E ep \in {GetEndpoint(gr)} :
          /\ gr' = ep.r
          /\ last' = [op |-> "GetEndpoint", n |-> last.n + 1, before |-> gr,
                      val |-> ep.url]
    /\ UNCHANGED added
    /\ UNCHANGED session

NextRequest ==
    \/ RequestGetEndpoint
    \/ RequestGet
    \/ RequestCount
    \/ MetadataGet
    \/ MetadataGetColumns

SpecRequest == InitRequest /\ [][NextRequest]_vars

\* ------------------------------------------------- Fields and Modified
\* the deferred function with the limit left at 0
RestoreFields_noLimit(r, old) ==
    [r EXCEPT !.Format = old.Format, !.Query.Select = old.Query.Select,
              !.Query.Order = old.Query.Order]

\* the deferred function of Fields and of Modified: Format, Select, Order
\* and Limit are put back
RestoreFields(r, old) ==
    [r EXCEPT !.Format = old.Format, !.Query.Select = old.Query.Select,
              !.Query.Order = old.Query.Order, !.Query.Limit = old.Query.Limit]

\* Fields, before its request: csv, no select list, no limit, no order
FieldsRequest(r) ==
    [r EXCEPT !.Format = "csv",
              !.Query = ClearOrder([@ EXCEPT !.Select = <<>>, !.Limit = 0])]

\* Modified, before its request: json, no select list, no limit, no order
ModifiedRequest(r) ==
    [r EXCEPT !.Format = "json",
              !.Query = ClearOrder([@ EXCEPT !.Select = <<>>, !.Limit = 0])]

\* csv.Reader.Read on a body: the text is one record of one field, the
\* empty array "[]" too; rows and objects of JSON have a quote inside an
\* unquoted field, which the reader refuses; spaces become underscores
FirstRecord(body) ==
    IF body.kind = "text" THEN [err |-> FALSE, fields |-> <<"not_found">>]
    ELSE IF body.kind = "array" /\ Len(body.rows) = 0
    THEN [err |-> FALSE, fields |-> <<"[]">>]
    ELSE [err |-> TRUE, fields |-> <<>>]

\* Fields, after its request
FieldsResult(g, old) ==
    LET after == RestoreFields(g.r, old)
        rec == FirstRecord(g.resp.body)
    IN  IF g.err # NoError
        THEN [r |-> after, val |-> <<>>, err |-> g.err, reqs |-> g.reqs,
              bodyOpen |-> g.bodyOpen]
        ELSE IF g.resp.readErr \/ rec.err
        THEN [r |-> after, val |-> <<>>, err |-> [kind |-> "csv"],
              reqs |-> g.reqs, bodyOpen |-> FALSE]
        ELSE [r |-> after, val |-> rec.fields, err |-> NoError,
              reqs |-> g.reqs, bodyOpen |-> FALSE]

\* the values of the two headers Modified reads: absent, not a date, a date
\* in the layout time.RFC1123
RFC1123Dates == {"Mon, 02 Jan 2006 15:04:05 MST"}
TruthHeaders == {""} \cup RFC1123Dates
LastModifiedHeaders == {"", "yesterday"}

\* Modified, after its request: X-Soda2-Truth-Last-Modified, else
\* Last-Modified, parsed with time.RFC1123
ModifiedResult(g, old, truth, lastmod) ==
    LET after == RestoreFields(g.r, old)
        lms == IF truth = "" THEN lastmod ELSE truth
    IN  IF g.err # NoError
        THEN [r |-> after, val |-> "", err |-> g.err, reqs |-> g.reqs,
              bodyOpen |-> g.bodyOpen]
        ELSE IF lms = ""
        THEN [r |-> after, val |-> "", err |-> [kind |-> "noheader"],
              reqs |-> g.reqs, bodyOpen |-> FALSE]
        ELSE IF lms \notin RFC1123Dates
        THEN [r |-> after, val |-> "", err |-> [kind |-> "time"],
              reqs |-> g.reqs, bodyOpen |-> FALSE]
        ELSE [r |-> after, val |-> lms, err |-> NoError, reqs |-> g.reqs,
              bodyOpen |-> FALSE]

\* the caller calls r.Fields()
RequestFields ==
    /\ last.n < MaxRequests
    /\ \E out \in Outcomes :
          \E g \in {Get(FieldsRequest(gr), out)} :
          \E f \in {FieldsResult(g, gr)} :
              /\ gr' = f.r
              /\ last' = [op |-> "Fields", n |-> last.n + 1, before |-> gr,
                          out |-> out, val |-> f.val, err |-> f.err,
                          reqs |-> f.reqs, bodyOpen |-> f.bodyOpen]
    /\ UNCHANGED added
    /\ UNCHANGED session

\* the caller calls r.Modified()
RequestModified ==
    /\ last.n < MaxRequests
    /\ \E out \in Outcomes, truth \in TruthHeaders,
          lastmod \in LastModifiedHeaders :
          \E g \in {Get(ModifiedRequest(gr), out)} :
          \E t \in {ModifiedResult(g, gr, truth, lastmod)} :
              /\ gr' = t.r
              /\ last' = [op |-> "Modified", n |-> last.n + 1, before |-> gr,
                          out |-> out, val |-> t.val, err |-> t.err,
                          reqs |-> t.reqs, bodyOpen |-> t.bodyOpen]
    /\ UNCHANGED added
    /\ UNCHANGED session

NextFields ==
    \/ RequestFields
    \/ RequestModified

SpecFields == InitRequest /\ [][NextFields]_vars

\* ------------------------------------------- the session, from its start
\* a request after NewGetRequest and the caller's configuration, no session
\* made of it yet
InitNew ==
    /\ \E endpoint \in {Resource, Unparsable},
          order \in {NoOrder, OneOrder}, off \in {0, 3} :
          gr = [NewGetRequestFor(endpoint, "token") EXCEPT
                  !.Filters = [k \in {"item"} |-> "Radishes"],
                  !.Query.Order = order,
                  !.Query.Offset = off]
    /\ offset = 0
    /\ count = 0
    /\ m = FALSE
    /\ active = {}
    /\ returned = NoReturn
    /\ windows = <<>>
    /\ nreq = 0
    /\ calls = 0
    /\ last = NoOp
    /\ added = gr.Query.Order

\* the session with the count stored as the offset too
NewSession_offsetAtCount(cnt) == [offset |-> cnt, count |-> cnt]

\* &OffsetGetRequest{gr: gr, offset: 0, count: count}
NewSession(cnt) == [offset |-> 0, count |-> cnt]

\* NewOffsetGetRequest(gr): gr.Count(), and a session when it succeeded
NewOffsetGetRequest ==
    /\ last.op = "none"
    /\ \E out \in Outcomes :
          \E g \in {Get(CountRequest(gr), out)} :
          \E c \in {CountResult(g, gr)} :
              /\ gr' = c.r
              /\ last' = [op |-> "NewOffsetGetRequest", n |-> last.n + 1,
                          before |-> gr, out |-> out, val |-> c.val,
                          err |-> c.err, reqs |-> c.reqs,
                          bodyOpen |-> c.bodyOpen,
                          session |-> (c.err = NoError)]
              /\ IF c.err = NoError
                 THEN /\ offset' = NewSession(c.val).offset
                      /\ count' = NewSession(c.val).count
                 ELSE UNCHANGED <<offset, count>>
    /\ UNCHANGED <<m, active, returned, windows, nreq, calls, added>>

\* NewOffsetGetRequest has returned a session
Built == last.op = "NewOffsetGetRequest" /\ last.session

\* the construction, then the Next calls on the session it returned
NextNew ==
    \/ NewOffsetGetRequest
    \/ Built /\ NextDone
    \/ Built /\ NextNoOrder
    \/ \E b \in BatchSizes : Built /\ NextAssign(b)
    \/ Built /\ GetEndpointCheck
    \/ Built /\ GetEndpointWrite
    \/ Built /\ Do
    \/ Built /\ DoError
    \/ \E status \in Statuses, bodyErr \in BOOLEAN :
          Built /\ Respond(status, bodyErr)

SpecNew == InitNew /\ [][NextNew]_vars

\* a caller that calls Get on the request, or builds a session from it and
\* calls Next on the session
NextCalls ==
    \/ last.op = "none" /\ RequestGet
    \/ NextNew

SpecCalls == InitNew /\ [][NextCalls]_vars

\* ------------------------------------------------- GetAllData (the README)
\* the batch sizes of the loop: ogr.Next(2000) in the sample, here a small
\* one, a larger one and the largest below the largest count
LoopBatchSizes == {1, 2, UintMod - 2}

\* the counts the session is constructed with: the small ones and the
\* largest uint
LoopTotals == (0..MaxTotal) \cup {UintMod - 1}

\* gr.Format = "json" (or left empty), a sort key added, the session built;
\* NumWorkers goroutines are started, none has terminated.  last.b is the
\* number every goroutine passes to Next, last.done the goroutines that have
\* left the loop.
InitLoop ==
    /\ \E format \in {"", "json"} : gr = NewGetRequest(format, OneOrder)
    /\ offset = 0
    /\ count \in LoopTotals
    /\ m = FALSE
    /\ active = {}
    /\ returned = NoReturn
    /\ windows = <<>>
    /\ nreq = 0
    /\ calls = 0
    /\ \E b \in LoopBatchSizes : last = [op |-> "loop", n |-> 0, b |-> b, done |-> 0]
    /\ added = gr.Query.Order

\* a goroutine that is in the loop and not inside a call calls Next and gets
\* the mutex
LoopEnter ==
    /\ Cardinality(active) + last.done < NumWorkers
    /\ ~m
    /\ calls' = calls + 1

\* resp, err := ogr.Next(b); if err == soda.ErrDone { break } ... wg.Done()
LoopDone ==
    /\ LoopEnter
    /\ NextOutcome(offset, count, gr.Query) = "done"
    /\ m' = FALSE
    /\ returned' = "ErrDone"
    /\ last' = [last EXCEPT !.done = @ + 1]
    /\ UNCHANGED <<gr, offset, count, active, windows, nreq, added>>

\* resp, err := ogr.Next(b) is assigned a window: the critical section of
\* Next with the goroutines' number, then the unlock.  The window history is
\* kept for UintMod windows at most.
LoopAssign ==
    /\ LoopEnter
    /\ Len(windows) < UintMod
    /\ NextOutcome(offset, count, gr.Query) = "assign"
    /\ LET number == Clamp(offset, last.b, count)
           g == [gr EXCEPT !.Query.Offset = offset, !.Query.Limit = number]
       IN  /\ gr' = g
           /\ offset' = (offset + number) % UintMod
           /\ windows' = Append(windows,
                  [start |-> offset, len |-> number, b |-> last.b, failed |-> FALSE])
           /\ active' = active \cup
                  {[win |-> Len(windows) + 1, pc |-> "epcheck",
                    rawquery |-> Encode(GetRequestURLValues(g)),
                    request |-> NoRequest]}
    /\ m' = FALSE
    /\ UNCHANGED <<count, returned, nreq, last, added>>

\* the transport answers below 400 and the body is read: the goroutine
\* decodes it, closes it and goes round the loop
LoopRespond == \E c \in active : Return(c, Classify(399, FALSE))

NextLoop ==
    \/ LoopDone
    \/ LoopAssign
    \/ GetEndpointCheck
    \/ GetEndpointWrite
    \/ Do
    \/ LoopRespond

\* the Go scheduler runs every goroutine that can run, and the transport
\* answers every request
SpecLoop == InitLoop /\ [][NextLoop]_vars /\ WF_vars(NextLoop)

\* C11: after Count has returned, whichever way (configuration error, request
\* not built, transport error, status >= 400, decode error, empty response,
\* unparsable scalar, success), Format, Query.Select and Query.Order are what
\* they were before the call, and so is every other field of the request.
C11_CountRestores ==
    last.op = "Count" =>
        /\ gr.Format = last.before.Format
        /\ gr.Query.Select = last.before.Query.Select
        /\ gr.Query.Order = last.before.Query.Order
        /\ gr = last.before

\* C11 witness: a successful Count on a request with no format, a select list
\* and a sort key
C11_Witness ==
    /\ last.op = "Count" /\ last.err = NoError /\ Len(last.reqs) = 1
    /\ last.reqs[1].url[Len(last.reqs[1].url)] = "json"
    /\ gr.Format = "" /\ gr.Query.Select = <<"x", "y">>
    /\ Len(gr.Query.Order) = 1

\* the offset/order precondition of Get fails on this request
OffsetWithoutOrder(r) == r.Query.Offset > 0 /\ Len(r.Query.Order) = 0

\* C12 as stated: Get with an offset above 0 and no sort key returns the
\* configuration error and issues no request; any other Get issues one
\* request.
C12_PreconditionThenOneRequest ==
    last.op = "Get" =>
        IF OffsetWithoutOrder(last.before)
        THEN last.err.kind = "config" /\ last.reqs = <<>>
        ELSE last.err.kind # "config" /\ Len(last.reqs) = 1

\* C12 amended: Get with an offset above 0 and no sort key returns the
\* configuration error and issues no request; any other Get passes the
\* precondition and issues one request when the endpoint with its format is a
\* URL that parses, and otherwise returns the error of building the request
\* and issues none.
C12_PreconditionThenRequestIfBuilt ==
    last.op = "Get" =>
        IF OffsetWithoutOrder(last.before)
        THEN last.err.kind = "config" /\ last.reqs = <<>>
        ELSE IF Parse(GetEndpoint(last.before).url).err
        THEN last.err.kind = "newrequest" /\ last.reqs = <<>>
        ELSE last.err.kind \notin {"config", "newrequest"} /\ Len(last.reqs) = 1

\* C12 witness: an offset above 0 with a sort key, and one request issued
C12_Witness ==
    /\ last.op = "Get"
    /\ last.before.Query.Offset > 0 /\ Len(last.before.Query.Order) = 1
    /\ Len(last.reqs) = 1 /\ last.err = NoError
    /\ Param(last.reqs[1].query, "$offset") = "3"

\* a Get whose request was answered by the transport with a response
Answered == last.op = "Get" /\ Len(last.reqs) = 1 /\ last.out.kind = "resp"

\* C13 as stated: an answer below 400 is returned as the response with no
\* error; an answer from 400 on gives no response and an error carrying the
\* status code, the URL of the request and the body text.
C13_ClassifiedAt400 ==
    Answered =>
        IF last.out.status < 400
        THEN /\ last.err = NoError
             /\ last.resp.status = last.out.status
             /\ last.resp.body = last.out.body
        ELSE /\ last.resp = NoResponse
             /\ last.err.kind = "remote"
             /\ last.err.status = last.out.status
             /\ last.err.url = last.reqs[1].url
             /\ last.err.query = last.reqs[1].query
             /\ last.err.body = last.out.body

\* C13 amended: an answer below 400 is returned as the response with no
\* error; an answer from 400 on gives no response and, when its body can be
\* read, an error carrying the status code, the URL of the request and the
\* body text; when reading the body fails, the error of the read.
C13_ClassifiedAt400BodyRead ==
    Answered =>
        IF last.out.status < 400
        THEN /\ last.err = NoError
             /\ last.resp.status = last.out.status
             /\ last.resp.body = last.out.body
        ELSE IF last.out.readErr
        THEN last.resp = NoResponse /\ last.err = [kind |-> "transport"]
        ELSE /\ last.resp = NoResponse
             /\ last.err.kind = "remote"
             /\ last.err.status = last.out.status
             /\ last.err.url = last.reqs[1].url
             /\ last.err.query = last.reqs[1].query
             /\ last.err.body = last.out.body

\* C13 witness: status 400 with a readable body
C13_Witness ==
    /\ Answered /\ last.out.status = 400 /\ ~last.out.readErr
    /\ last.err.kind = "remote" /\ last.err.status = 400
    /\ last.err.body.kind = "text"

\* a Count whose request was answered below 400 with a JSON array
CountDecoded ==
    /\ last.op = "Count" /\ Len(last.reqs) = 1 /\ last.out.kind = "resp"
    /\ last.out.status < 400 /\ ~last.out.readErr
    /\ last.out.body.kind = "array"

\* a decimal string of a non-negative integer
IsNonNegative(str) ==
    Len(str) > 0 /\ \A i \in 1..Len(str) : str[i] \in Digits

\* C14: Count returns an error when the count response is an empty sequence
\* or its scalar is not a non-negative integer (a negative one included); it
\* returns a count only for a non-negative integer, and that count is the
\* scalar's value.
C14_CountNonNegative ==
    CountDecoded =>
        LET rows == last.out.body.rows
        IN  /\ (Len(rows) = 0 \/ ~IsNonNegative(rows[1])) => last.err # NoError
            /\ last.err = NoError =>
                  /\ Len(rows) > 0
                  /\ IsNonNegative(rows[1])
                  /\ last.val = DigitsValue(rows[1])

\* the scheme and the host of the endpoints of the model
EndpointScheme == <<"h">>
EndpointHost == <<"d">>

\* the identifier is 9 characters with a hyphen as the 5th
WellFormed(id) == Len(id) = 9 /\ id[5] = "-"

\* C19: Metadata.Get and Metadata.GetColumns return an error and no metadata
\* and issue no request when the identifier derived from the endpoint is not
\* 9 characters with a hyphen as the 5th, or the base URL is empty; with a
\* well-formed identifier the request goes to
\* <scheme>://<host>/views/<identifier>.
C19_MetadataFailsFast ==
    last.op \in {"Metadata.Get", "Metadata.GetColumns"} =>
        LET md == gr.Metadata
        IN  IF ~WellFormed(md.identifier) \/ md.baseurl = <<>>
            THEN last.err # NoError /\ last.md = FALSE /\ last.reqs = <<>>
            ELSE last.reqs =
                   <<EndpointScheme \o <<":", "/", "/">> \o EndpointHost
                       \o <<"/", "v", "i", "e", "w", "s", "/">>
                       \o md.identifier>>

\* C19 witness: GetColumns on an identifier of 9 characters without the
\* hyphen
C19_Witness ==
    /\ last.op = "Metadata.GetColumns"
    /\ Len(gr.Metadata.identifier) = 9 /\ gr.Metadata.identifier[5] = "x"
    /\ gr.Metadata.baseurl # <<>>
    /\ last.err.kind = "url" /\ last.reqs = <<>>

\* C15: NewOffsetGetRequest runs the count query once; when it succeeds the
\* session starts at offset 0 with the returned count as its total, when it
\* fails there is no session; and no step after the construction changes the
\* total.
C15_CountOnceAtConstruction ==
    [][/\ (last.op = "none" /\ last'.op = "NewOffsetGetRequest") =>
            /\ Len(last'.reqs) <= 1
            /\ \A i \in 1..Len(last'.reqs) :
                  Param(last'.reqs[i].query, "$select") = "count(*)"
            /\ IF last'.err = NoError
               THEN /\ last'.session
                    /\ Len(last'.reqs) = 1
                    /\ offset' = 0
                    /\ count' = last'.val
               ELSE ~last'.session
       /\ last.op = "NewOffsetGetRequest" =>
            /\ count' = count
            /\ last' = last]_vars

\* C15 witness: a session built with total 2, Next calls made, the window
\* counter advanced, the total still 2
C15_Witness ==
    /\ Built /\ last.val = 2 /\ count = 2
    /\ calls >= 2 /\ offset = 2 /\ nreq >= 1

\* C16: SoSQL.URLValues emits a key exactly for the fields that are not at
\* their zero value (non-empty select list, where, order list, search, group;
\* limit > 0; offset > 0), leaves the request as it was, and a call that
\* directly follows another returns the same keys and values.
C16_EmitsNonDefaultOnly ==
    [][(last'.op = "SoSQL.URLValues" /\ last'.n > last.n) =>
         LET uv == last'.val
             q == gr.Query
         IN  /\ gr' = gr
             /\ DOMAIN uv \subseteq
                   {"$select", "$where", "$order", "$q", "$group", "$limit",
                    "$offset"}
             /\ ("$select" \in DOMAIN uv) <=> (Len(q.Select) > 0)
             /\ ("$where" \in DOMAIN uv) <=> (q.Where # "")
             /\ ("$order" \in DOMAIN uv) <=> (Len(q.Order) > 0)
             /\ ("$q" \in DOMAIN uv) <=> (q.Q # "")
             /\ ("$group" \in DOMAIN uv) <=> (q.Group # "")
             /\ ("$limit" \in DOMAIN uv) <=> (q.Limit > 0)
             /\ ("$offset" \in DOMAIN uv) <=> (q.Offset > 0)
             /\ (last.op = "SoSQL.URLValues" => uv = last.val)]_vars

\* C16 witness: a serialization, after earlier operations, of a query with
\* fields set and fields at their zero value
C16_Witness ==
    /\ last.op = "SoSQL.URLValues" /\ last.n >= 2
    /\ gr.Query.Limit = 0 /\ gr.Query.Q = "" /\ gr.Query.Where # ""
    /\ Len(gr.Query.Order) > 0
    /\ DOMAIN last.val = {"$where", "$order"}

\* the "<column> ASC" / "<column> DESC" string the claim gives for a key
KeyString(key) == key.Column \o (IF key.Desc THEN " DESC" ELSE " ASC")

\* C17: the serialized order value lists exactly the sort keys added since
\* the last ClearOrder, in call order, each as "<column> DESC" or
\* "<column> ASC", joined by commas; with no key added since, the order key
\* is absent.
C17_OrderSerialization ==
    last.op = "SoSQL.URLValues" =>
        IF Len(added) = 0 THEN "$order" \notin DOMAIN last.val
        ELSE /\ "$order" \in DOMAIN last.val
             /\ last.val["$order"] =
                    Join([i \in 1..Len(added) |-> KeyString(added[i])], ",")

\* C17 witness: two keys of different directions, added after a ClearOrder,
\* serialized
C17_Witness ==
    /\ last.op = "SoSQL.URLValues" /\ last.n = 4
    /\ Len(added) = 2 /\ added[1].Desc /\ ~added[2].Desc
    /\ last.val["$order"] = "y DESC,x ASC"

\* C18: in GetRequest.URLValues every key of the query model carries the
\* query model's value, every filter key that is not a key of the query
\* model carries its filter value, and there is no other key: on a collision
\* the query model wins.
C18_QueryWins ==
    last.op = "GetRequest.URLValues" =>
        LET uv == last.val
            f == gr.Filters
            q == SoSQLURLValues(gr.Query)
        IN  /\ DOMAIN uv = (DOMAIN f) \cup (DOMAIN q)
            /\ \A k \in DOMAIN q : uv[k] = q[k]
            /\ \A k \in (DOMAIN f) \ (DOMAIN q) : uv[k] = f[k]

\* C18 witness: a filter on $limit and a limit in the query
C18_Witness ==
    /\ last.op = "GetRequest.URLValues"
    /\ DOMAIN gr.Filters = {"item", "$limit"}
    /\ gr.Query.Limit > 0
    /\ last.val["$limit"] = Sprintf_d(gr.Query.Limit)
    /\ last.val["$limit"] # gr.Filters["$limit"]
    /\ last.val["item"] = "Radishes"

\* C20: every Next call releases the mutex before it returns, whichever way
\* it returns (ErrDone, the missing-order error, or with a window assigned),
\* so that a later call can acquire it.
C20_NextReleasesLock == [][calls' > calls => ~m']_vars

\* C23: Count clears the sort keys before Get checks the offset, so Count on
\* a request whose Query.Offset is above 0 returns the configuration error
\* and issues no request, also when the caller's query has sort keys.
C23_CountWithOffsetFails ==
    (last.op = "Count" /\ last.before.Query.Offset > 0) =>
        /\ last.err = [kind |-> "config"]
        /\ last.reqs = <<>>

\* C23 witness: Count on a request with an offset and a sort key
C23_Witness ==
    /\ last.op = "Count" /\ last.before.Query.Offset = 3
    /\ Len(last.before.Query.Order) = 1
    /\ last.err.kind = "config" /\ last.reqs = <<>>
    /\ Len(gr.Query.Order) = 1

\* C24: when get returns an error for a response with status >= 400, the
\* body of that response has been closed.
C24_ErrorBodyClosed ==
    (Answered /\ last.out.status >= 400) =>
        last.err # NoError /\ ~last.bodyOpen

\* the raw query has the key
HasKey(raw, key) == \E i \in 1..Len(raw) : raw[i].key = key

\* C25: Count issues at most one request; it goes to "<endpoint>.json", its
\* select parameter is "count(*)", it has no order parameter, and its
\* filters and where, group, search and limit parameters are the caller's.
C25_CountRequestShape ==
    last.op = "Count" =>
        /\ Len(last.reqs) <= 1
        /\ \A i \in 1..Len(last.reqs) :
              LET req == last.reqs[i]
                  q == last.before.Query
              IN  /\ req.url = last.before.endpoint \o <<".", "json">>
                  /\ Param(req.query, "$select") = "count(*)"
                  /\ ~HasKey(req.query, "$order")
                  /\ Param(req.query, "item") = last.before.Filters["item"]
                  /\ Param(req.query, "$where") = q.Where
                  /\ Param(req.query, "$group") = q.Group
                  /\ Param(req.query, "$q") = q.Q
                  /\ IF q.Limit > 0
                     THEN Param(req.query, "$limit") = Sprintf_d(q.Limit)
                     ELSE ~HasKey(req.query, "$limit")

\* C25 witness: the count request of a caller with a csv format, a select
\* list, a sort key and a limit
C25_Witness ==
    /\ last.op = "Count" /\ Len(last.reqs) = 1
    /\ last.before.Format = "csv"
    /\ last.before.Query.Select = <<"x", "y">>
    /\ Len(last.before.Query.Order) = 1
    /\ last.before.Query.Limit = 2
    /\ Param(last.reqs[1].query, "$limit") = "2"

\* C28: GetEndpoint returns "<endpoint>.<format>" for the format of the
\* request; with an empty Format it returns "<endpoint>.json" and stores
\* "json" in Format; nothing else of the request changes.
C28_GetEndpoint ==
    last.op = "GetEndpoint" =>
        LET r == last.before
        IN  IF r.Format = ""
            THEN /\ last.val = r.endpoint \o <<".", "json">>
                 /\ gr = [r EXCEPT !.Format = "json"]
                 /\ gr # r
            ELSE /\ last.val = r.endpoint \o <<".", r.Format>>
                 /\ gr = r

\* C28 witness: GetEndpoint on a request with no format
C28_Witness ==
    /\ last.op = "GetEndpoint" /\ last.before.Format = ""
    /\ gr.Format = "json"
    /\ last.val = Resource \o <<".", "json">>

\* C29: the metadata of a resource URL with a trailing slash has the base
\* URL "<scheme>://<host>" and, as identifier, the last path segment of the
\* URL without the slash: the same as the metadata of the URL without it.
C29_TrailingSlash ==
    (Len(gr.endpoint) > 0 /\ gr.endpoint[Len(gr.endpoint)] = "/") =>
        LET bare == SubSeq(gr.endpoint, 1, Len(gr.endpoint) - 1)
        IN  /\ gr.Metadata = newMetadata(bare)
            /\ gr.Metadata.baseurl =
                  EndpointScheme \o <<":", "/", "/">> \o EndpointHost
            /\ gr.Metadata.identifier =
                  SubSeq(bare, Len(bare) - 8, Len(bare))

\* C29 witness: a request made for the resource URL with a trailing slash,
\* its metadata asked for at the URL of the identifier
C29_Witness ==
    /\ gr.endpoint = Resource \o <<"/">>
    /\ gr.Metadata.identifier = <<"y", "6", "p", "2", "-", "p", "x", "9", "8">>
    /\ last.op = "Metadata.Get" /\ Len(last.reqs) = 1

\* C26: after Fields or Modified has returned, with an error or not, Format,
\* Query.Select, Query.Order and Query.Limit are what they were before the
\* call, and so is every other field of the request.
C26_FieldsModifiedRestore ==
    last.op \in {"Fields", "Modified"} =>
        /\ gr.Format = last.before.Format
        /\ gr.Query.Select = last.before.Query.Select
        /\ gr.Query.Order = last.before.Query.Order
        /\ gr.Query.Limit = last.before.Query.Limit
        /\ gr = last.before

\* C26 witness: Modified fails on the headers of an answered request made
\* for a caller with a format, a select list, a sort key and a limit
C26_Witness ==
    /\ last.op = "Modified" /\ last.err.kind = "noheader"
    /\ Len(last.reqs) = 1 /\ ~HasKey(last.reqs[1].query, "$limit")
    /\ gr.Format = "csv" /\ gr.Query.Select = <<"x", "y">>
    /\ Len(gr.Query.Order) = 1 /\ gr.Query.Limit = 2

\* a step in which a Next call is assigned a window
Assigns == Len(windows') = Len(windows) + 1

\* the shared query is left at the window the step assigned
LeftAtWindow ==
    Assigns =>
        /\ gr'.Query.Offset = windows'[Len(windows')].start
        /\ gr'.Query.Limit = windows'[Len(windows')].len

\* C22: a Next call that is assigned a window changes, of the session, only
\* the offset counter and, of the shared query, only Offset and Limit, which
\* are left at the window assigned and not put back; Select, Where, Order,
\* Group, Q and Filters are the same after every step of the call as before.
C22_OnlyOffsetAndLimit ==
    [][/\ count' = count
       /\ gr'.Filters = gr.Filters
       /\ gr'.Query = [gr.Query EXCEPT !.Offset = gr'.Query.Offset,
                                       !.Limit = gr'.Query.Limit]
       /\ LeftAtWindow
       /\ Assigns =>
            offset' = (offset + windows'[Len(windows')].len) % UintMod
       /\ ~Assigns => (gr'.Query = gr.Query /\ offset' = offset)]_vars

\* C22 witness: two windows assigned and their calls returned, the query
\* left at the second, the sort key still there
C22_Witness ==
    /\ Len(windows) = 2 /\ active = {}
    /\ windows[2].start > 0
    /\ gr.Query.Offset = windows[2].start
    /\ gr.Query.Limit = windows[2].len
    /\ gr.Query.Order = OneOrder /\ gr.Format = "json"

\* the Next calls that were assigned a window and have not yet handed their
\* request to the client
NotYetSent == {c \in active : c.pc # "inflight"}

\* every window assigned has one request, once its call has reached the
\* client; a call that returns from get had its request out and sends no more
OneRequestPerWindow ==
    /\ nreq' + Cardinality(NotYetSent') = Len(windows')
    /\ ReturnsFromGet =>
         /\ nreq' = nreq
         /\ \A c \in active \ active' : c.request # NoRequest

\* a Get whose request went out and was answered by an error or a status
\* from 400 on has issued that one request and returns the error for it
SingleAttempt ==
    last'.op = "Get" /\ Len(last'.reqs) > 0 =>
        /\ Len(last'.reqs) = 1
        /\ last'.out.kind = "neterr" => last'.err.kind = "transport"
        /\ (last'.out.kind = "resp" /\ last'.out.status >= 400) =>
              last'.err.kind = (IF last'.out.readErr THEN "transport" ELSE "remote")

CeilDiv(t, b) == (t + b - 1) \div b

\* every goroutine of the loop has received ErrDone and left the loop
Terminated == last.op = "loop" /\ last.done = NumWorkers

\* C21 (the part a finite run refutes): with a sort key, one batch size
\* B >= 1 and a transport that always answers, the loop is never assigned
\* more than ceil(T/B) windows, and when the goroutines have terminated the
\* session is exhausted and exactly ceil(T/B) calls were assigned a window.
C21_ExhaustedAfterCeilWindows ==
    last.op = "loop" =>
        /\ Len(windows) <= CeilDiv(count, last.b)
        /\ Terminated => (Exhausted /\ Len(windows) = CeilDiv(count, last.b))

\* C21 (termination): under fair scheduling every goroutine of the loop
\* eventually receives ErrDone and terminates.
C21_WorkersTerminate == <>Terminated

====
